---- MODULE Spec2Model ----
(***************************************************************************)
(* Model of StreamingCommunity/Util/_jsonConfig.py: the ConfigManager      *)
(* singleton (main store, site store, flat cache), the configuration file  *)
(* on disk and the two remote endpoints it talks to.                       *)
(*                                                                         *)
(* A Python str is a sequence of one-character strings, so that           *)
(* concatenation (the composite cache key), the substring test of `in`,   *)
(* split(',') and strip() are computed as Python computes them.            *)
(* A Python value is a record [t, i, s, l, m]: t the type tag, i the       *)
(* number (or 0/1 for a bool), s the characters of a str, l the elements   *)
(* of a list or tuple, m the mapping of a dict.                            *)
(***************************************************************************)
EXTENDS Integers, Sequences, FiniteSets, TLC

VARIABLES
    config,      \* self.config, the main store
    configSite,  \* self.configSite, the site store
    cache,       \* self.cache: composite key -> value
    file,        \* the file at self.file_path: whether it exists, and its text
    alive,       \* FALSE once sys.exit has ended the process
    last,        \* the last call: its arguments, what the environment did, its outcome
    writer,      \* history: for each cache entry, the (from_site, section, key) that stored it
    ops          \* calls made since the import-time load

vars == <<config, configSite, cache, file, alive, last, writer, ops>>

\* Number of calls made on the manager after the import-time read_config.
MaxOps == 3

-----------------------------------------------------------------------------
(* Python values *)

EmptyMap == [n \in {} |-> 0]

PyNone == [t |-> "NoneType", i |-> 0, s |-> <<>>, l |-> <<>>, m |-> EmptyMap]

PyInt(n) == [t |-> "int", i |-> n, s |-> <<>>, l |-> <<>>, m |-> EmptyMap]

PyBool(b) == [t |-> "bool", i |-> IF b THEN 1 ELSE 0, s |-> <<>>, l |-> <<>>, m |-> EmptyMap]

PyStr(chars) == [t |-> "str", i |-> 0, s |-> chars, l |-> <<>>, m |-> EmptyMap]

PyList(elems) == [t |-> "list", i |-> 0, s |-> <<>>, l |-> elems, m |-> EmptyMap]

PyTuple(elems) == [t |-> "tuple", i |-> 0, s |-> <<>>, l |-> elems, m |-> EmptyMap]

PyDict(map) == [t |-> "dict", i |-> 0, s |-> <<>>, l |-> <<>>, m |-> map]

\* A value json.dump cannot serialise (a set, an object): opaque, identified by i.
PyObject(n) == [t |-> "object", i |-> n, s |-> <<>>, l |-> <<>>, m |-> EmptyMap]

\* d[k] = v on a dict value
DictSet(d, k, v) == PyDict([n \in (DOMAIN d.m) \cup {k} |-> IF n = k THEN v ELSE d.m[n]])

-----------------------------------------------------------------------------
(* str methods used by the module *)

IsSpace(c) == c = " "

RECURSIVE lstrip(_)
lstrip(s) == IF s # <<>> /\ IsSpace(Head(s)) THEN lstrip(Tail(s)) ELSE s

RECURSIVE rstrip(_)
rstrip(s) == IF s # <<>> /\ IsSpace(s[Len(s)]) THEN rstrip(SubSeq(s, 1, Len(s) - 1)) ELSE s

strip(s) == rstrip(lstrip(s))

\* s.split(','): the pieces between commas, empty pieces kept
RECURSIVE split(_)
split(s) ==
    IF \E i \in 1..Len(s) : s[i] = ","
    THEN LET i == CHOOSE j \in 1..Len(s) : s[j] = "," /\ \A k \in 1..(j - 1) : s[k] # ","
         IN  <<SubSeq(s, 1, i - 1)>> \o split(SubSeq(s, i + 1, Len(s)))
    ELSE <<s>>

\* `sub in s` for two strs
IsSubstring(sub, s) == \E i \in 1..(Len(s) - Len(sub) + 1) : SubSeq(s, i, i + Len(sub) - 1) = sub

Digits == {"0", "1", "2", "3", "4", "5", "6", "7", "8", "9"}

DigitVal(c) == CHOOSE d \in 0..9 : <<"0", "1", "2", "3", "4", "5", "6", "7", "8", "9">>[d + 1] = c

RECURSIVE DecimalVal(_)
DecimalVal(s) == IF s = <<>> THEN 0 ELSE DecimalVal(SubSeq(s, 1, Len(s) - 1)) * 10 + DigitVal(s[Len(s)])

\* int(str): surrounding whitespace is ignored; anything but digits raises ValueError
IntOfStr(s) ==
    LET body == strip(s)
    IN  IF body # <<>> /\ \A i \in 1..Len(body) : body[i] \in Digits
        THEN [exc |-> "none", val |-> PyInt(DecimalVal(body))]
        ELSE [exc |-> "ValueError", val |-> PyNone]

-----------------------------------------------------------------------------
(* Python operators on values *)

\* `name in container`, name a str: "yes", "no", or "TypeError" when the
\* container is not iterable (a number, a bool, None, a plain object)
PyIn(name, container) ==
    CASE container.t = "dict" -> IF name \in DOMAIN container.m THEN "yes" ELSE "no"
      [] container.t = "str" -> IF IsSubstring(name, container.s) THEN "yes" ELSE "no"
      [] container.t \in {"list", "tuple"} ->
            IF \E i \in 1..Len(container.l) : container.l[i] = PyStr(name) THEN "yes" ELSE "no"
      [] OTHER -> "TypeError"

\* container[name], name a str: only a dict can be indexed by a str
PyGetItem(container, name) ==
    IF container.t = "dict" /\ name \in DOMAIN container.m
    THEN [exc |-> "none", val |-> container.m[name]]
    ELSE [exc |-> IF container.t = "dict" THEN "KeyError" ELSE "TypeError", val |-> PyNone]

\* bool(value): Python truthiness
Truthy(value) ==
    CASE value.t = "NoneType" -> FALSE
      [] value.t \in {"int", "bool"} -> value.i # 0
      [] value.t = "str" -> value.s # <<>>
      [] value.t \in {"list", "tuple"} -> value.l # <<>>
      [] value.t = "dict" -> DOMAIN value.m # {}
      [] OTHER -> TRUE

\* int(value)
PyIntOf(value) ==
    CASE value.t \in {"int", "bool"} -> [exc |-> "none", val |-> PyInt(value.i)]
      [] value.t = "str" -> IntOfStr(value.s)
      [] OTHER -> [exc |-> "TypeError", val |-> PyNone]

\* [item.strip() for item in value.split(',')]; only a str has split
SplitStrip(value) ==
    IF value.t = "str"
    THEN LET parts == split(value.s)
         IN  [exc |-> "none", val |-> PyList([i \in 1..Len(parts) |-> PyStr(strip(parts[i]))])]
    ELSE [exc |-> "AttributeError", val |-> PyNone]

-----------------------------------------------------------------------------
(* ConfigManager: lookup and update *)

DataTypes == {"str", "int", "float", "bool", "list", "dict", "NoneType"}

S_config == <<"c", "o", "n", "f", "i", "g">>

S_site == <<"s", "i", "t", "e">>

\* f"{'site' if from_site else 'config'}.{section}.{key}"
cache_key(from_site, section, key) ==
    (IF from_site THEN S_site ELSE S_config) \o <<".">> \o section \o <<".">> \o key

_convert_to_data_type(value, data_type) ==
    CASE data_type = "int" -> PyIntOf(value)
      [] data_type = "bool" -> [exc |-> "none", val |-> PyBool(Truthy(value))]
      [] data_type = "list" ->
            IF value.t = "list" THEN [exc |-> "none", val |-> value] ELSE SplitStrip(value)
      [] data_type = "NoneType" -> [exc |-> "none", val |-> PyNone]
      [] OTHER -> [exc |-> "none", val |-> value]

\* Lookup with a missing section or key defaulted to None instead of raising
Lookup_defaulting(config_source, section, key) ==
    LET inSrc == PyIn(section, config_source)
        sec   == PyGetItem(config_source, section)
        inSec == PyIn(key, sec.val)
    IN  CASE inSrc = "TypeError" -> [exc |-> "TypeError", val |-> PyNone]
          [] inSrc = "no" -> [exc |-> "none", val |-> PyNone]
          [] sec.exc # "none" -> [exc |-> sec.exc, val |-> PyNone]
          [] inSec = "TypeError" -> [exc |-> "TypeError", val |-> PyNone]
          [] inSec = "no" -> [exc |-> "none", val |-> PyNone]
          [] OTHER -> PyGetItem(sec.val, key)

\* `section in config_source and key in config_source[section]`, then
\* config_source[section][key]: the value found, "KeyNotFound" for the
\* ValueError of line 132, or the exception an operand raises
Lookup(config_source, section, key) ==
    LET inSrc == PyIn(section, config_source)
        sec   == PyGetItem(config_source, section)
        inSec == PyIn(key, sec.val)
    IN  CASE inSrc = "TypeError" -> [exc |-> "TypeError", val |-> PyNone]
          [] inSrc = "no" -> [exc |-> "KeyNotFound", val |-> PyNone]
          [] sec.exc # "none" -> [exc |-> sec.exc, val |-> PyNone]
          [] inSec = "TypeError" -> [exc |-> "TypeError", val |-> PyNone]
          [] inSec = "no" -> [exc |-> "KeyNotFound", val |-> PyNone]
          [] OTHER -> PyGetItem(sec.val, key)

\* read_key converting a cached value to the requested type before returning it
read_key_converting_hit(section, key, data_type, from_site) ==
    LET ck    == cache_key(from_site, section, key)
        found == IF ck \in DOMAIN cache THEN [exc |-> "none", val |-> cache[ck]]
                 ELSE Lookup(IF from_site THEN configSite ELSE config, section, key)
        conv  == _convert_to_data_type(found.val, data_type)
    IN  CASE found.exc # "none" ->
                [exc |-> found.exc, ret |-> PyNone, cache |-> cache, hit |-> FALSE]
          [] conv.exc # "none" ->
                [exc |-> conv.exc, ret |-> PyNone, cache |-> cache, hit |-> ck \in DOMAIN cache]
          [] OTHER ->
                [exc |-> "none", ret |-> conv.val, hit |-> ck \in DOMAIN cache,
                 cache |-> [c \in (DOMAIN cache) \cup {ck} |-> IF c = ck THEN conv.val ELSE cache[c]]]

\* read_key on the current state: the exception raised to the caller ("none"
\* when it returns), the value returned, the cache afterwards and whether the
\* cache answered
read_key(section, key, data_type, from_site) ==
    LET ck    == cache_key(from_site, section, key)
        found == Lookup(IF from_site THEN configSite ELSE config, section, key)
        conv  == _convert_to_data_type(found.val, data_type)
    IN  CASE ck \in DOMAIN cache ->
                [exc |-> "none", ret |-> cache[ck], cache |-> cache, hit |-> TRUE]
          [] found.exc # "none" ->
                [exc |-> found.exc, ret |-> PyNone, cache |-> cache, hit |-> FALSE]
          [] conv.exc # "none" ->
                [exc |-> conv.exc, ret |-> PyNone, cache |-> cache, hit |-> FALSE]
          [] OTHER ->
                [exc |-> "none", ret |-> conv.val, hit |-> FALSE,
                 cache |-> [c \in (DOMAIN cache) \cup {ck} |-> IF c = ck THEN conv.val ELSE cache[c]]]

\* set_key storing the value in the store only, not in the cache
set_key_store_only(section, key, value, to_site) ==
    LET target  == IF to_site THEN configSite ELSE config
        present == PyIn(section, target)
        created == IF present = "no" /\ target.t = "dict"
                   THEN DictSet(target, section, PyDict(EmptyMap)) ELSE target
        sec     == PyGetItem(created, section)
        caught  == CASE present = "TypeError" -> "TypeError"
                     [] present = "no" /\ target.t # "dict" -> "TypeError"
                     [] sec.exc # "none" -> sec.exc
                     [] sec.val.t # "dict" -> "TypeError"
                     [] OTHER -> "none"
        stored  == IF caught = "none"
                   THEN DictSet(created, section, DictSet(sec.val, key, value)) ELSE target
    IN  [config     |-> IF to_site THEN config ELSE stored,
         configSite |-> IF to_site THEN stored ELSE configSite,
         cache      |-> cache,
         caught     |-> caught]

\* set_key on the current state: the stores and cache afterwards, and the
\* exception its try block caught and printed ("none" when it ran through)
set_key(section, key, value, to_site) ==
    LET target  == IF to_site THEN configSite ELSE config
        present == PyIn(section, target)
        \* config_target[section] = {}
        created == IF present = "no" /\ target.t = "dict"
                   THEN DictSet(target, section, PyDict(EmptyMap)) ELSE target
        sec     == PyGetItem(created, section)
        caught  == CASE present = "TypeError" -> "TypeError"
                     [] present = "no" /\ target.t # "dict" -> "TypeError"
                     [] sec.exc # "none" -> sec.exc
                     [] sec.val.t # "dict" -> "TypeError"
                     [] OTHER -> "none"
        stored  == IF caught = "none"
                   THEN DictSet(created, section, DictSet(sec.val, key, value)) ELSE target
        ck      == cache_key(to_site, section, key)
    IN  [config     |-> IF to_site THEN config ELSE stored,
         configSite |-> IF to_site THEN stored ELSE configSite,
         cache      |-> IF caught = "none"
                        THEN [c \in (DOMAIN cache) \cup {ck} |-> IF c = ck THEN value ELSE cache[c]]
                        ELSE cache,
         caught     |-> caught]

-----------------------------------------------------------------------------
(* JSON: the text of a file or of a response body is kept as the document   *)
(* it denotes (object, array, string, number, boolean, null), or as         *)
(* Malformed when it is not JSON (an empty or truncated file, an HTML page) *)

Malformed == [t |-> "malformed", i |-> 0, s |-> <<>>, l |-> <<>>, m |-> EmptyMap]

\* whether json.dump can encode the value (str keys only arise here)
RECURSIVE Serialisable(_)
Serialisable(value) ==
    CASE value.t \in {"list", "tuple"} -> \A i \in 1..Len(value.l) : Serialisable(value.l[i])
      [] value.t = "dict" -> \A n \in DOMAIN value.m : Serialisable(value.m[n])
      [] value.t = "object" -> FALSE
      [] OTHER -> TRUE

\* json.dump(value): a list and a tuple both become an array
RECURSIVE Encode(_)
Encode(value) ==
    CASE value.t = "NoneType" -> [value EXCEPT !.t = "null"]
      [] value.t = "bool" -> [value EXCEPT !.t = "boolean"]
      [] value.t = "int" -> [value EXCEPT !.t = "number"]
      [] value.t = "str" -> [value EXCEPT !.t = "string"]
      [] value.t \in {"list", "tuple"} ->
            [value EXCEPT !.t = "array", !.l = [i \in 1..Len(value.l) |-> Encode(value.l[i])]]
      [] value.t = "dict" ->
            [value EXCEPT !.t = "object", !.m = [n \in DOMAIN value.m |-> Encode(value.m[n])]]
      [] OTHER -> Malformed

json_dump(value) ==
    IF Serialisable(value) THEN [exc |-> "none", text |-> Encode(value)]
    ELSE [exc |-> "TypeError", text |-> Malformed]

\* json.load(text): an array becomes a list
RECURSIVE Decode(_)
Decode(doc) ==
    CASE doc.t = "null" -> [doc EXCEPT !.t = "NoneType"]
      [] doc.t = "boolean" -> [doc EXCEPT !.t = "bool"]
      [] doc.t = "number" -> [doc EXCEPT !.t = "int"]
      [] doc.t = "string" -> [doc EXCEPT !.t = "str"]
      [] doc.t = "array" ->
            [doc EXCEPT !.t = "list", !.l = [i \in 1..Len(doc.l) |-> Decode(doc.l[i])]]
      [] doc.t = "object" ->
            [doc EXCEPT !.t = "dict", !.m = [n \in DOMAIN doc.m |-> Decode(doc.m[n])]]
      [] OTHER -> PyNone

json_load(text) ==
    IF text.t = "malformed" THEN [exc |-> "JSONDecodeError", val |-> PyNone]
    ELSE [exc |-> "none", val |-> Decode(text)]

-----------------------------------------------------------------------------
(* ConfigManager: file and network *)

\* What requests.get does: raise, or answer with a status and a body
Raises == [kind |-> "exception", status |-> 0, body |-> Malformed]

Response(status, body) == [kind |-> "response", status |-> status, body |-> body]

\* download_requirements logging a failed download without sys.exit
download_requirements_no_exit(resp, openFails) ==
    CASE resp.kind = "exception" ->
            [file |-> file, exit |-> FALSE, events |-> <<"requests.get">>]
      [] resp.status = 200 /\ openFails ->
            [file |-> file, exit |-> FALSE, events |-> <<"requests.get", "open.wb">>]
      [] resp.status = 200 ->
            [file |-> [exists |-> TRUE, text |-> resp.body], exit |-> FALSE,
             events |-> <<"requests.get", "open.wb", "write">>]
      [] OTHER ->
            [file |-> file, exit |-> FALSE, events |-> <<"requests.get">>]

\* download_requirements leaving an empty file behind on a 200 answer
download_requirements_empty_file(resp, openFails) ==
    CASE resp.kind = "exception" ->
            [file |-> file, exit |-> TRUE, events |-> <<"requests.get", "sys.exit">>]
      [] resp.status = 200 /\ openFails ->
            [file |-> file, exit |-> TRUE, events |-> <<"requests.get", "open.wb", "sys.exit">>]
      [] resp.status = 200 ->
            [file |-> [exists |-> TRUE, text |-> Malformed], exit |-> FALSE,
             events |-> <<"requests.get", "open.wb", "write">>]
      [] OTHER ->
            [file |-> file, exit |-> TRUE, events |-> <<"requests.get", "sys.exit">>]

\* download_requirements(url, filename) given what requests.get does and
\* whether open(filename, 'wb') fails: the file afterwards, whether sys.exit
\* was called, and the steps taken
download_requirements(resp, openFails) ==
    CASE resp.kind = "exception" ->
            [file |-> file, exit |-> TRUE, events |-> <<"requests.get", "sys.exit">>]
      [] resp.status = 200 /\ openFails ->
            [file |-> file, exit |-> TRUE, events |-> <<"requests.get", "open.wb", "sys.exit">>]
      [] resp.status = 200 ->
            [file |-> [exists |-> TRUE, text |-> resp.body], exit |-> FALSE,
             events |-> <<"requests.get", "open.wb", "write">>]
      [] OTHER ->
            [file |-> file, exit |-> TRUE, events |-> <<"requests.get", "sys.exit">>]

\* update_site_config emptying the site store when the fetch fails
update_site_config_resetting(resp) ==
    LET parsed == json_load(resp.body)
        empty  == PyDict(EmptyMap)
    IN  CASE resp.kind = "exception" ->
                [configSite |-> empty, caught |-> "RequestException", status |-> 0]
          [] resp.status = 200 /\ parsed.exc # "none" ->
                [configSite |-> empty, caught |-> parsed.exc, status |-> 200]
          [] resp.status = 200 ->
                [configSite |-> parsed.val, caught |-> "none", status |-> 200]
          [] OTHER ->
                [configSite |-> empty, caught |-> "none", status |-> resp.status]

\* update_site_config() given what requests.get does: the site store
\* afterwards and the exception caught and printed
update_site_config(resp) ==
    LET parsed == json_load(resp.body)
    IN  CASE resp.kind = "exception" ->
                [configSite |-> configSite, caught |-> "RequestException", status |-> 0]
          [] resp.status = 200 /\ parsed.exc # "none" ->
                [configSite |-> configSite, caught |-> parsed.exc, status |-> 200]
          [] resp.status = 200 ->
                [configSite |-> parsed.val, caught |-> "none", status |-> 200]
          [] OTHER ->
                [configSite |-> configSite, caught |-> "none", status |-> resp.status]

\* read_config without its except clause: a failure to open or parse the
\* file leaves it as an exception
read_config_uncaught(openFails, dlResp, dlOpenFails, siteResp) ==
    LET dl     == download_requirements(dlResp, dlOpenFails)
        exit   == ~file.exists /\ dl.exit
        file1  == IF file.exists THEN file ELSE dl.file
        loaded == json_load(file1.text)
        raised == CASE exit -> "none"
                    [] openFails \/ ~file1.exists -> "OSError"
                    [] OTHER -> loaded.exc
        site   == update_site_config(siteResp)
    IN  [file       |-> file1,
         exit       |-> exit,
         exc        |-> IF exit THEN "SystemExit" ELSE raised,
         caught     |-> "none",
         config     |-> IF ~exit /\ raised = "none" THEN loaded.val ELSE config,
         configSite |-> IF ~exit /\ raised = "none" THEN site.configSite ELSE configSite,
         siteCaught |-> IF ~exit /\ raised = "none" THEN site.caught ELSE "none",
         events     |-> <<"os.path.exists">>
                        \o (IF file.exists THEN <<>> ELSE dl.events)
                        \o (IF exit THEN <<>> ELSE <<"open.r">>)
                        \o (IF exit \/ raised = "OSError" THEN <<>> ELSE <<"json.load">>)
                        \o (IF ~exit /\ raised = "none" THEN <<"update_site_config">> ELSE <<>>)]

\* read_config fetching the site configuration after the try block, whether
\* or not the load failed
read_config_fetch_always(openFails, dlResp, dlOpenFails, siteResp) ==
    LET dl     == download_requirements(dlResp, dlOpenFails)
        exit   == ~file.exists /\ dl.exit
        file1  == IF file.exists THEN file ELSE dl.file
        loaded == json_load(file1.text)
        caught == CASE exit -> "none"
                    [] openFails \/ ~file1.exists -> "OSError"
                    [] OTHER -> loaded.exc
        site   == update_site_config(siteResp)
    IN  [file       |-> file1,
         exit       |-> exit,
         exc        |-> IF exit THEN "SystemExit" ELSE "none",
         caught     |-> caught,
         config     |-> IF ~exit /\ caught = "none" THEN loaded.val ELSE config,
         configSite |-> IF ~exit THEN site.configSite ELSE configSite,
         siteCaught |-> IF ~exit THEN site.caught ELSE "none",
         events     |-> <<"os.path.exists">>
                        \o (IF file.exists THEN <<>> ELSE dl.events)
                        \o (IF exit THEN <<>> ELSE <<"open.r">>)
                        \o (IF exit \/ caught = "OSError" THEN <<>> ELSE <<"json.load">>)
                        \o (IF ~exit THEN <<"update_site_config">> ELSE <<>>)]

\* read_config() given what the environment does: whether opening the file
\* for reading fails, the answer to the default-config download, whether
\* opening the file for the download fails, the answer of the site endpoint.
\* exit: sys.exit was called (SystemExit is no Exception, so neither except
\* clause stops it); exc: what leaves read_config; caught: what its except
\* clause logged and swallowed.
read_config(openFails, dlResp, dlOpenFails, siteResp) ==
    LET dl     == download_requirements(dlResp, dlOpenFails)
        exit   == ~file.exists /\ dl.exit
        file1  == IF file.exists THEN file ELSE dl.file
        loaded == json_load(file1.text)
        caught == CASE exit -> "none"
                    [] openFails \/ ~file1.exists -> "OSError"
                    [] OTHER -> loaded.exc
        site   == update_site_config(siteResp)
    IN  [file       |-> file1,
         exit       |-> exit,
         exc        |-> IF exit THEN "SystemExit" ELSE "none",
         caught     |-> caught,
         config     |-> IF ~exit /\ caught = "none" THEN loaded.val ELSE config,
         configSite |-> IF ~exit /\ caught = "none" THEN site.configSite ELSE configSite,
         siteCaught |-> IF ~exit /\ caught = "none" THEN site.caught ELSE "none",
         events     |-> <<"os.path.exists">>
                        \o (IF file.exists THEN <<>> ELSE dl.events)
                        \o (IF exit THEN <<>> ELSE <<"open.r">>)
                        \o (IF exit \/ caught = "OSError" THEN <<>> ELSE <<"json.load">>)
                        \o (IF ~exit /\ caught = "none" THEN <<"update_site_config">> ELSE <<>>)]

\* write_config dumping the site store instead of the main store
write_config_site_store(openFails) ==
    LET dumped == json_dump(configSite)
    IN  IF openFails THEN [file |-> file, caught |-> "OSError"]
        ELSE [file |-> [exists |-> TRUE, text |-> dumped.text], caught |-> dumped.exc]

\* write_config() given whether open(file_path, 'w') fails: the file
\* afterwards and the exception caught and printed.  json.dump writes as it
\* encodes, so a value it cannot encode leaves a truncated file behind.
write_config(openFails) ==
    LET dumped == json_dump(config)
    IN  IF openFails THEN [file |-> file, caught |-> "OSError"]
        ELSE [file |-> [exists |-> TRUE, text |-> dumped.text], caught |-> dumped.exc]

-----------------------------------------------------------------------------
(* Inputs *)

S_a == <<"a">>

S_a_b == <<"a", ".", "b">>

S_c == <<"c">>

S_b_c == <<"b", ".", "c">>

\* (section, key) pairs the callers use: "a.b"/"c" and "a"/"b.c"
Paths == {<<S_a_b, S_c>>, <<S_a, S_b_c>>}

\* values handed to set_key: a str, a tuple, and a value json cannot encode
Values == {PyStr(<<"1">>), PyTuple(<<PyInt(0)>>), PyObject(1)}

Sections1(v) == PyDict([n \in {S_a} |-> v])

\* {"a": {"b.c": " 12"}}
GoodText == Encode(Sections1(PyDict([n \in {S_b_c} |-> PyStr(<<" ", "1", "2">>)])))

\* {"a": 5}: a section that is no mapping
FlatText == Encode(Sections1(PyInt(5)))

\* {"a": {"b.c": "a, b"}}
SiteText == Encode(Sections1(PyDict([n \in {S_b_c} |-> PyStr(<<"a", ",", " ", "b">>)])))

\* ["a"]: a document that is no mapping
ArrayText == Encode(PyList(<<PyStr(S_a)>>))

InitialFiles == {[exists |-> FALSE, text |-> Malformed]} \cup {[exists |-> TRUE, text |-> x] : x \in {GoodText, FlatText, Malformed}}

DownloadResponses == {Raises, Response(404, Malformed), Response(200, GoodText), Response(200, Malformed)}

SiteResponses == {Raises, Response(503, Malformed), Response(200, SiteText), Response(200, ArrayText), Response(200, Malformed)}

-----------------------------------------------------------------------------
(* State machine *)

NoRequest == [kind |-> "none", status |-> 0, body |-> Malformed]

NoCall == [op |-> "__init__", section |-> <<>>, key |-> <<>>, data_type |-> "", from_site |-> FALSE,
           value |-> PyNone, exc |-> "none", caught |-> "none", siteCaught |-> "none",
           ret |-> PyNone, hit |-> FALSE, events |-> <<>>, dl |-> NoRequest, site |-> NoRequest,
           openFails |-> FALSE, dlOpenFails |-> FALSE]

\* ConfigManager.__init__: three empty mappings
Init ==
    /\ config = PyDict(EmptyMap)
    /\ configSite = PyDict(EmptyMap)
    /\ cache = EmptyMap
    /\ file \in InitialFiles
    /\ alive = TRUE
    /\ last = NoCall
    /\ writer = EmptyMap
    /\ ops = 0

Has(events, e) == \E i \in 1..Len(events) : events[i] = e

ReadConfigStep ==
    \E openFails \in BOOLEAN, siteResp \in SiteResponses, dlOpenFails \in IF file.exists THEN {FALSE} ELSE BOOLEAN, dlResp \in IF file.exists THEN {NoRequest} ELSE DownloadResponses :
        LET r == read_config(openFails, dlResp, dlOpenFails, siteResp)
            fetched == Has(r.events, "update_site_config")
        IN  /\ config' = r.config
            /\ configSite' = r.configSite
            /\ file' = r.file
            /\ alive' = ~r.exit
            /\ last' = [NoCall EXCEPT !.op = "read_config", !.exc = r.exc,
                                      !.caught = r.caught, !.siteCaught = r.siteCaught, !.events = r.events,
                                      !.dl = dlResp, !.site = IF fetched THEN siteResp ELSE NoRequest,
                                      !.openFails = openFails /\ Has(r.events, "open.r"),
                                      !.dlOpenFails = dlOpenFails /\ Has(r.events, "open.wb")]
            /\ UNCHANGED <<cache, writer>>

\* line 243: the module loads the configuration as soon as it is imported
Import ==
    /\ alive /\ last.op = "__init__"
    /\ ReadConfigStep
    /\ UNCHANGED ops

Called == alive /\ last.op # "__init__" /\ ops < MaxOps

ReadConfig ==
    /\ Called
    /\ ReadConfigStep
    /\ ops' = ops + 1

UpdateSiteConfig ==
    /\ Called
    /\ \E siteResp \in SiteResponses :
        LET r == update_site_config(siteResp)
        IN  /\ configSite' = r.configSite
            /\ last' = [NoCall EXCEPT !.op = "update_site_config", !.siteCaught = r.caught,
                                      !.events = <<"requests.get">>, !.site = siteResp]
    /\ ops' = ops + 1
    /\ UNCHANGED <<config, cache, file, alive, writer>>

ReadKey ==
    /\ Called
    /\ \E p \in Paths, data_type \in DataTypes, from_site \in BOOLEAN :
        LET r == read_key(p[1], p[2], data_type, from_site)
        IN  /\ cache' = r.cache
            /\ writer' = [c \in DOMAIN r.cache |-> IF c \in DOMAIN cache THEN writer[c] ELSE <<from_site, p[1], p[2]>>]
            /\ last' = [NoCall EXCEPT !.op = "read_key", !.section = p[1], !.key = p[2],
                                      !.data_type = data_type, !.from_site = from_site,
                                      !.exc = r.exc, !.ret = r.ret, !.hit = r.hit]
    /\ ops' = ops + 1
    /\ UNCHANGED <<config, configSite, file, alive>>

SetKey ==
    /\ Called
    /\ \E p \in Paths, value \in Values, to_site \in BOOLEAN :
        LET r == set_key(p[1], p[2], value, to_site)
        IN  /\ config' = r.config
            /\ configSite' = r.configSite
            /\ cache' = r.cache
            /\ writer' = IF r.caught = "none"
                         THEN [c \in DOMAIN r.cache |-> IF c = cache_key(to_site, p[1], p[2]) THEN <<to_site, p[1], p[2]>> ELSE writer[c]]
                         ELSE writer
            /\ last' = [NoCall EXCEPT !.op = "set_key", !.section = p[1], !.key = p[2],
                                      !.from_site = to_site, !.value = value, !.caught = r.caught]
    /\ ops' = ops + 1
    /\ UNCHANGED <<file, alive>>

WriteConfig ==
    /\ Called
    /\ \E openFails \in BOOLEAN :
        LET r == write_config(openFails)
        IN  /\ file' = r.file
            /\ last' = [NoCall EXCEPT !.op = "write_config", !.caught = r.caught,
                                      !.openFails = openFails,
                                      !.events = IF openFails THEN <<"open.w">> ELSE <<"open.w", "json.dump">>]
    /\ ops' = ops + 1
    /\ UNCHANGED <<config, configSite, cache, alive, writer>>

Next == Import \/ ReadConfig \/ UpdateSiteConfig \/ ReadKey \/ SetKey \/ WriteConfig

Spec == Init /\ [][Next]_vars

-----------------------------------------------------------------------------
(* Claims *)

\* the store a call selects
Store(from_site) == IF from_site THEN configSite ELSE config

\* the claims' "section absent from the store, or key absent within that
\* section", for a store that maps sections to mappings
Absent(store, section, key) ==
    /\ store.t = "dict"
    /\ \/ section \notin DOMAIN store.m
       \/ /\ store.m[section].t = "dict"
          /\ key \notin DOMAIN store.m[section].m

\* the cache entry under the composite key of (from_site, section, key), if
\* any, was stored by a call for that same triple (no collision, see C10)
OwnEntry(from_site, section, key) ==
    LET ck == cache_key(from_site, section, key)
    IN  ck \in DOMAIN cache => writer[ck] = <<from_site, section, key>>

\* C1 as stated: in every reachable state a getter for an (origin, section,
\* key) absent from the selected store fails with KeyNotFound and leaves
\* both stores as they were.  (Cache entries stored under a colliding
\* composite key are set aside here: they are C10's subject.)
C1_AbsentAlwaysFails ==
    [][(/\ last'.op = "read_key"
        /\ Absent(Store(last'.from_site), last'.section, last'.key)
        /\ OwnEntry(last'.from_site, last'.section, last'.key))
        => (last'.exc = "KeyNotFound" /\ UNCHANGED <<config, configSite>>)]_vars

\* C1 amended: a getter for an (origin, section, key) absent from the
\* selected store, whose composite key has no cache entry, fails with
\* KeyNotFound and leaves both stores and the cache as they were.
C1_AbsentUncachedFails ==
    [][(/\ last'.op = "read_key"
        /\ Absent(Store(last'.from_site), last'.section, last'.key)
        /\ cache_key(last'.from_site, last'.section, last'.key) \notin DOMAIN cache)
        => (last'.exc = "KeyNotFound" /\ UNCHANGED <<config, configSite, cache>>)]_vars

\* a getter has just failed with KeyNotFound on a store that lacks the key
C1_Witness ==
    /\ last.op = "read_key" /\ last.exc = "KeyNotFound"
    /\ Absent(Store(last.from_site), last.section, last.key)

\* the target of set_key is a mapping in which the section is absent or is
\* itself a mapping
Settable(store, section) ==
    /\ store.t = "dict"
    /\ section \in DOMAIN store.m => store.m[section].t = "dict"

\* the getter called right after the step returns `value` for this type
GetterReturns(section, key, data_type, from_site, value) ==
    LET r == read_key(section, key, data_type, from_site)
    IN  r.exc = "none" /\ r.ret = value

\* the step is the call set_key(p[1], p[2], value, to_site)
IsSetKey(p, value, to_site) ==
    /\ last'.op = "set_key" /\ last'.section = p[1] /\ last'.key = p[2]
    /\ last'.value = value /\ last'.from_site = to_site

RECURSIVE JsonNative(_)
JsonNative(value) ==
    CASE value.t \in {"tuple", "object"} -> FALSE
      [] value.t = "list" -> \A i \in 1..Len(value.l) : JsonNative(value.l[i])
      [] value.t = "dict" -> \A n \in DOMAIN value.m : JsonNative(value.m[n])
      [] OTHER -> TRUE

\* C4 as stated: for every main store reachable through set_key calls,
\* write_config() followed by a load of the same file yields a main store
\* equal to the one written (read with both calls able to open the file).
\* On the successful path read_config assigns the parsed file to the main
\* store whole, so a load by this manager and by a new one end alike.
C4_RoundTrip ==
    [][(/\ last.op = "write_config" /\ ~last.openFails
        /\ last'.op = "read_config" /\ ~last'.openFails /\ last'.exc = "none")
        => config' = config]_vars

\* C4 amended: the same for a main store whose values are JSON-native (str,
\* int, bool, None, list, dict: no tuple, nothing json.dump cannot encode).
C4_RoundTripJsonNative ==
    [][(/\ last.op = "write_config" /\ ~last.openFails /\ JsonNative(config)
        /\ last'.op = "read_config" /\ ~last'.openFails /\ last'.exc = "none")
        => (last.caught = "none" /\ last'.caught = "none" /\ config' = config)]_vars

\* a load has parsed a file holding the section "a.b", which only a
\* write_config after set_key("a.b", "c", ...) puts there
C4_Witness ==
    /\ last.op = "read_config" /\ last.caught = "none" /\ last.exc = "none"
    /\ config.t = "dict" /\ S_a_b \in DOMAIN config.m /\ JsonNative(config)

\* the default-config download failed: the request raised, the status was
\* not 200, or the destination could not be opened
DownloadFailed(call) ==
    \/ call.dl.kind = "exception"
    \/ call.dl.kind = "response" /\ (call.dl.status # 200 \/ call.dlOpenFails)

\* C5 as stated: read_config() always returns normally; every failure during
\* the load, a failed download of the default configuration included, is
\* swallowed.
C5_AlwaysReturns ==
    last.op = "read_config" => (last.exc = "none" /\ alive)

\* C5 amended: read_config() returns normally unless the file was absent and
\* the download of the default configuration failed, in which case sys.exit
\* ends the process; a failure to open or parse the file, or of the site
\* fetch, is swallowed.
C5_ReturnsUnlessDownloadFails ==
    last.op = "read_config"
        => /\ last.exc = "none" <=> alive
           /\ last.exc = "SystemExit" <=> DownloadFailed(last)
           /\ last.exc \in {"none", "SystemExit"}

\* read_config has returned normally after swallowing a parse failure
C5_Witness ==
    last.op = "read_config" /\ last.exc = "none" /\ last.caught = "JSONDecodeError" /\ alive

\* e1 occurs in events, and e2 occurs after it
Before(events, e1, e2) == \E i, j \in 1..Len(events) : i < j /\ events[i] = e1 /\ events[j] = e2

\* the file was absent and the download answered 200 (the destination and
\* the file could be opened)
Downloaded(call) ==
    /\ call.op = "read_config" /\ call.dl.kind = "response" /\ call.dl.status = 200
    /\ ~call.dlOpenFails /\ ~call.openFails

\* C6 as stated: file absent and download answering 200: download, write and
\* parse happen in that order, and on return the main store is the parsed
\* downloaded content and the file exists.
C6_DownloadThenParse ==
    Downloaded(last)
        => /\ Before(last.events, "requests.get", "write")
           /\ Before(last.events, "write", "json.load")
           /\ last.exc = "none"
           /\ json_load(last.dl.body).exc = "none" /\ config = json_load(last.dl.body).val
           /\ file = [exists |-> TRUE, text |-> last.dl.body]

\* C6 amended: the same when the downloaded body is valid JSON; a 200 answer
\* whose body is not JSON is written to the file, fails to parse, and
\* read_config returns with the main store as it was.
C6_DownloadThenParseValid ==
    Downloaded(last)
        => /\ Before(last.events, "requests.get", "write")
           /\ Before(last.events, "write", "json.load")
           /\ last.exc = "none"
           /\ file = [exists |-> TRUE, text |-> last.dl.body]
           /\ json_load(last.dl.body).exc = "none" => config = json_load(last.dl.body).val
           /\ json_load(last.dl.body).exc # "none" => last.caught = json_load(last.dl.body).exc

\* the default configuration was downloaded, written and loaded
C6_Witness ==
    /\ Downloaded(last) /\ last.caught = "none"
    /\ config = Decode(GoodText) /\ file.exists

\* C7: when the download answers a non-200 status or the request raises, the
\* process ends: nothing is written, no later step of read_config runs, and
\* the stores keep their values.
C7_DownloadFailureExits ==
    [][(/\ last'.op = "read_config"
        /\ \/ last'.dl.kind = "exception"
           \/ last'.dl.kind = "response" /\ last'.dl.status # 200)
        => /\ last'.exc = "SystemExit" /\ ~alive'
           /\ UNCHANGED <<file, config, configSite, cache>>
           /\ ~Has(last'.events, "write") /\ ~Has(last'.events, "open.r")
           /\ ~Has(last'.events, "json.load") /\ ~Has(last'.events, "update_site_config")]_vars

\* the download answered 404 and the process has ended with no file
C7_Witness ==
    /\ last.op = "read_config" /\ last.dl.kind = "response" /\ last.dl.status = 404
    /\ ~alive /\ ~file.exists

\* C8: update_site_config() never ends the process and never raises; only a
\* 200 answer with a parsable body replaces the site store, by that body;
\* anything else leaves it as it was; the main store and the cache are
\* untouched.
C8_SiteFetchNonFatal ==
    [][last'.op = "update_site_config"
        => LET resp == last'.site
               parsed == json_load(resp.body)
           IN  /\ alive' /\ last'.exc = "none"
               /\ UNCHANGED <<config, cache, file>>
               /\ IF resp.kind = "response" /\ resp.status = 200 /\ parsed.exc = "none"
                  THEN configSite' = parsed.val
                  ELSE configSite' = configSite]_vars

\* a site fetch has failed on a store that held data, and the data is still there
C8_Witness ==
    /\ last.op = "update_site_config" /\ last.site.status # 200
    /\ configSite = Decode(SiteText) /\ alive

Count(events, e) == Cardinality({i \in 1..Len(events) : events[i] = e})

\* C9 as stated: every read_config() that returns has invoked
\* update_site_config exactly once, after the branch that populates the
\* main store.
C9_FetchOnEveryReturn ==
    (last.op = "read_config" /\ last.exc = "none")
        => /\ Count(last.events, "update_site_config") = 1
           /\ Before(last.events, "json.load", "update_site_config")

\* C9 amended: a read_config() that returns having opened and parsed the
\* file has invoked update_site_config exactly once, after the parse; one
\* that returns after swallowing a failure to open or parse the file has
\* not invoked it.
C9_FetchAfterSuccessfulLoad ==
    (last.op = "read_config" /\ last.exc = "none")
        => IF last.caught = "none"
           THEN /\ Count(last.events, "update_site_config") = 1
                /\ Before(last.events, "json.load", "update_site_config")
                /\ last.events[Len(last.events)] = "update_site_config"
                /\ last.site.kind # "none"
           ELSE /\ Count(last.events, "update_site_config") = 0
                /\ last.site.kind = "none"

\* a load has parsed the file and then fetched the site configuration
C9_Witness ==
    /\ last.op = "read_config" /\ last.exc = "none" /\ last.caught = "none"
    /\ last.site.kind = "response" /\ last.site.status = 200 /\ configSite = Decode(SiteText)

\* C10: a value read_key returns from the cache was stored by an earlier
\* read_key or set_key for the same origin, section and key.
C10_CacheEntryOwnTriple ==
    (last.op = "read_key" /\ last.hit)
        => writer[cache_key(last.from_site, last.section, last.key)] = <<last.from_site, last.section, last.key>>

====
